---- MODULE Spec2Model ----
(***************************************************************************)
(* Model of the resolution, caching and format-selection core of           *)
(* src/src/server/api/routers/video.ts (the second, current definition of  *)
(* the router in that file: lines 309-713).                                *)
(*                                                                         *)
(* JavaScript strings that the code searches with String.includes or       *)
(* compares with a format id are sequences of word tokens; s.includes(p)   *)
(* is "p occurs in s as a contiguous run of tokens".  Strings that are     *)
(* only compared for equality and truthiness (url, ext, codecs) are TLA+   *)
(* strings.  An absent (undefined) field is a sentinel of the same type.   *)
(***************************************************************************)
EXTENDS Integers, Sequences, FiniteSets, TLC

VARIABLES
    now,         \* seconds elapsed since the module was loaded
    ticks,       \* number of clock steps taken
    infoCache,   \* the NodeCache: key -> entry [present, v, t]
    checkAt,     \* time the next periodic check of the cache is due
    reqs,        \* the requests: position in the handler, result, history
    extractCalls,\* history: extraction calls made so far, per URL
    inserted,    \* history: times of the successful cache insertions, per URL
    served,      \* history: insertions some resolution already started
                 \*          more than StdTTL seconds after, per URL
    failedSince, \* history: an extraction of the URL failed and none succeeded since
    selInfo,     \* the resolved VideoInfo a selection is applied to
    selFid,      \* the formatId of the applied getDownloadLink request
    selOut,      \* the outcome of getDownloadLink on selInfo
    selList,     \* the formats array returned by getVideoFormats on selInfo
    selPc        \* "input" | "resolved" | "listed"

selVars == <<selInfo, selFid, selOut, selList, selPc>>
sysVars == <<now, ticks, infoCache, checkAt, reqs, extractCalls, inserted, served, failedSince>>
vars == <<sysVars, selVars>>

(***************************************************************************)
(* Bounds of the model.                                                    *)
(***************************************************************************)
MaxFormats == 3
MaxTicks == 2
MaxRequests == 3
MaxPhrases == 2

(***************************************************************************)
(* JavaScript values.                                                      *)
(***************************************************************************)
Undef == "undefined"
NullUrl == "null"
NoStr == <<"undefined">>
NoNum == 0 - 1

Truthy(s) == s # Undef /\ s # NullUrl /\ s # ""
TruthyStr(s) == s # NoStr /\ s # <<>>
IsString(s) == s # Undef /\ s # NullUrl
IsNumber(n) == n # NoNum
OrZero(n) == IF n = NoNum THEN 0 ELSE n

Includes_AtStart(s, p) ==
    /\ s # NoStr
    /\ Len(p) <= Len(s)
    /\ SubSeq(s, 1, Len(p)) = p

Includes(s, p) ==
    /\ s # NoStr
    /\ \E i \in 0..(Len(s) - Len(p)) : SubSeq(s, i + 1, i + Len(p)) = p

Direct == <<"direct">>
Mp3 == <<"mp3">>

(***************************************************************************)
(* Array.prototype.sort with comparator Cmp: the sort is stable, so the    *)
(* result is the one an insertion sort gives that puts each element after  *)
(* every earlier element it does not have to precede.                      *)
(***************************************************************************)
InsertStable(sorted, x, Cmp(_, _)) ==
    LET later == {j \in 1..Len(sorted) : Cmp(sorted[j], x) > 0}
        k == IF later = {} THEN Len(sorted) + 1
             ELSE CHOOSE j \in later : \A h \in later : j <= h
    IN SubSeq(sorted, 1, k - 1) \o <<x>> \o SubSeq(sorted, k, Len(sorted))

StableSort(s, Cmp(_, _)) ==
    LET ins[i \in 0..Len(s)] ==
            IF i = 0 THEN <<>> ELSE InsertStable(ins[i - 1], s[i], Cmp)
    IN ins[Len(s)]

FindFirst(s, P(_)) ==
    LET hits == {i \in 1..Len(s) : P(s[i])}
    IN IF hits = {} THEN 0 ELSE CHOOSE i \in hits : \A h \in hits : i <= h

(***************************************************************************)
(* selectDownloadUrl                                                       *)
(***************************************************************************)
HttpToken == <<"http">>

DirectPreferred_AnyDirect(info) ==
    Truthy(info.url)

DirectPreferred(info) ==
    Truthy(info.url) /\ (info.ext = "mp4" \/ Includes(info.protocol, HttpToken))

IsCompleteMp4(f) ==
    /\ f.ext = "mp4"
    /\ f.vcodec # "none"
    /\ f.acodec # "none"
    /\ IsString(f.url)

CompareQuality(a, b) ==
    LET dh == OrZero(b.height) - OrZero(a.height)
    IN IF dh # 0 THEN dh ELSE OrZero(b.tbr) - OrZero(a.tbr)

mp4Formats(info) == StableSort(SelectSeq(info.formats, IsCompleteMp4), CompareQuality)

IsAnyMp4(f) == f.ext = "mp4" /\ IsString(f.url)

anyMp4(info) ==
    LET i == FindFirst(info.formats, IsAnyMp4)
    IN IF i = 0 THEN Undef ELSE info.formats[i].url

selectDownloadUrl(info) ==
    IF DirectPreferred(info) THEN info.url
    ELSE IF ~info.hasFormats THEN NullUrl
    ELSE IF Len(mp4Formats(info)) > 0 /\ Truthy(mp4Formats(info)[1].url)
         THEN mp4Formats(info)[1].url
    ELSE IF Truthy(anyMp4(info)) THEN anyMp4(info)
    ELSE NullUrl

(***************************************************************************)
(* Errors.  kind names the throw site (the failure the selector or the     *)
(* resolver raised); code and message are what the TRPCError carries.      *)
(***************************************************************************)
PlainError(kind, msg) == [isTRPC |-> FALSE, code |-> "none", message |-> msg, kind |-> kind]
TRPCError(code, msg, kind) == [isTRPC |-> TRUE, code |-> code, message |-> msg, kind |-> kind]

MsgNoAudioStream == <<"Could", "not", "find", "any", "suitable", "audio", "stream", ".">>
MsgFormatNotFound(fid) ==
    <<"Format", "ID">> \o fid \o <<"not", "found", "or", "has", "no", "URL", ".">>
MsgNoSuitableFormat ==
    <<"Could", "not", "determine", "a", "suitable", "default", "video", "download", "URL", ".">>
MsgAudioForMp3 == <<"Could", "not", "find", "a", "suitable", "audio", "stream", "for", "MP3", ".">>
MsgTryAnother == <<"Try", "another", "format", "or", "check", "the", "URL", ".">>

Success(url) ==
    [ok |-> TRUE, downloadUrl |-> url, formats |-> <<>>,
     code |-> "OK", message |-> <<>>, kind |-> "none"]
Listing(entries) ==
    [ok |-> TRUE, downloadUrl |-> NullUrl, formats |-> entries,
     code |-> "OK", message |-> <<>>, kind |-> "none"]
Failure(code, msg, kind) ==
    [ok |-> FALSE, downloadUrl |-> NullUrl, formats |-> <<>>,
     code |-> code, message |-> msg, kind |-> kind]

(***************************************************************************)
(* getDownloadLink: the "mp3" branch.                                      *)
(***************************************************************************)
IsAudioOnly(f) ==
    /\ IsString(f.url)
    /\ f.acodec # "none"
    /\ f.vcodec = "none"
    /\ IsNumber(f.tbr)

CompareTbr(a, b) == b.tbr - a.tbr

audioFormats(info) == StableSort(SelectSeq(info.formats, IsAudioOnly), CompareTbr)

HasAudio(f) == IsString(f.url) /\ f.acodec # "none"

CompareTbrOrZero(a, b) == OrZero(b.tbr) - OrZero(a.tbr)

fallbackAudio(info) == StableSort(SelectSeq(info.formats, HasAudio), CompareTbrOrZero)

SelectMp3(info) ==
    IF Len(audioFormats(info)) > 0 /\ Truthy(audioFormats(info)[1].url)
    THEN [thrown |-> FALSE, url |-> audioFormats(info)[1].url]
    ELSE IF Len(fallbackAudio(info)) > 0 /\ Truthy(fallbackAudio(info)[1].url)
    THEN [thrown |-> FALSE, url |-> fallbackAudio(info)[1].url]
    ELSE [thrown |-> TRUE, error |-> PlainError("NoAudioStream", MsgNoAudioStream)]

(***************************************************************************)
(* getDownloadLink: the explicit format id branch.                         *)
(***************************************************************************)
specificFormat_OrDirect(info, fid) ==
    LET i == FindFirst(info.formats, LAMBDA f : f.format_id = fid)
    IN IF i = 0 THEN info.url ELSE info.formats[i].url

specificFormat_FirstWithUrl(info, fid) ==
    LET i == FindFirst(info.formats, LAMBDA f : f.format_id = fid /\ Truthy(f.url))
    IN IF i = 0 THEN Undef ELSE info.formats[i].url

specificFormat(info, fid) ==
    LET i == FindFirst(info.formats, LAMBDA f : f.format_id = fid)
    IN IF i = 0 THEN Undef ELSE info.formats[i].url

SelectSpecific_Unchecked(info, fid) ==
    IF specificFormat(info, fid) # Undef
    THEN [thrown |-> FALSE, url |-> specificFormat(info, fid)]
    ELSE [thrown |-> TRUE, error |-> PlainError("FormatNotFound", MsgFormatNotFound(fid))]

SelectSpecific(info, fid) ==
    IF Truthy(specificFormat(info, fid))
    THEN [thrown |-> FALSE, url |-> specificFormat(info, fid)]
    ELSE [thrown |-> TRUE, error |-> PlainError("FormatNotFound", MsgFormatNotFound(fid))]

(***************************************************************************)
(* getDownloadLink: the default / "direct" branch.                         *)
(***************************************************************************)
DirectOnly_FormatsAbsent(info) ==
    Truthy(info.url) /\ ~info.hasFormats

DirectOnly(info) ==
    Truthy(info.url) /\ (~info.hasFormats \/ Len(info.formats) = 0)

SelectDefault(info) ==
    LET downloadUrl == IF DirectOnly(info) THEN info.url ELSE selectDownloadUrl(info)
    IN IF Truthy(downloadUrl)
       THEN [thrown |-> FALSE, url |-> downloadUrl]
       ELSE [thrown |-> TRUE, error |-> PlainError("NoSuitableFormat", MsgNoSuitableFormat)]

(***************************************************************************)
(* getDownloadLink: dispatch on the requested format id (the try block     *)
(* after the VideoInfo was resolved).                                      *)
(***************************************************************************)
IsExplicitId_AnyString(fid) == fid # NoStr /\ fid # Direct

IsExplicitId(fid) == TruthyStr(fid) /\ fid # Direct

SelectByRequest(info, fid) ==
    IF fid = Mp3 THEN SelectMp3(info)
    ELSE IF IsExplicitId(fid) THEN SelectSpecific(info, fid)
    ELSE SelectDefault(info)

(***************************************************************************)
(* getDownloadLink: the catch block.                                       *)
(***************************************************************************)
RequestLabel(fid) ==
    IF fid = Mp3 THEN <<"MP3", "audio">>
    ELSE IF TruthyStr(fid) THEN <<"format">> \o fid
    ELSE <<"the", "default", "format">>

ContextMessage(fid, original) ==
    IF Includes(original, <<"audio", "stream">>) THEN MsgAudioForMp3
    ELSE IF Includes(original, <<"Format", "ID">>) THEN original
    ELSE IF Includes(original, <<"Default", "download", "URL">>) THEN MsgNoSuitableFormat
    ELSE <<"Could", "not", "get", "download", "link", "for">> \o RequestLabel(fid) \o <<".">>

CatchDownloadLink_Hint(fid, error) ==
    Failure(IF error.isTRPC THEN error.code ELSE "INTERNAL_SERVER_ERROR",
            ContextMessage(fid, error.message) \o MsgTryAnother, error.kind)

CatchDownloadLink(fid, error) ==
    LET finalMessage ==
            IF error.isTRPC /\ error.code = "BAD_REQUEST"
            THEN error.message
            ELSE ContextMessage(fid, error.message) \o MsgTryAnother
    IN Failure(IF error.isTRPC THEN error.code ELSE "INTERNAL_SERVER_ERROR",
               finalMessage, error.kind)

(***************************************************************************)
(* getDownloadLink on a resolved VideoInfo.                                *)
(***************************************************************************)
DownloadLinkOf(info, fid) ==
    LET sel == SelectByRequest(info, fid)
    IN IF sel.thrown THEN CatchDownloadLink(fid, sel.error) ELSE Success(sel.url)

(***************************************************************************)
(* getVideoFormats on a resolved VideoInfo.  Of each returned entry the    *)
(* model keeps the id, the container, the codecs, the bitrate and whether  *)
(* the label carries the " (Audio Only)" suffix; title, resolution, note   *)
(* and file size are copied fields no selection reads.                     *)
(***************************************************************************)
IsUsable(f) ==
    /\ Truthy(f.url)
    /\ (f.ext = "mp4" \/ f.ext = "webm" \/ f.acodec # "none")

ListEntry(f) ==
    [formatId |-> f.format_id, ext |-> f.ext, acodec |-> f.acodec, vcodec |-> f.vcodec,
     tbr |-> f.tbr, audioOnly |-> (f.acodec # "none" /\ f.vcodec = "none")]

DirectEntry(info) ==
    [formatId |-> Direct, ext |-> IF info.ext = Undef THEN "unknown" ELSE info.ext,
     acodec |-> Undef, vcodec |-> Undef, tbr |-> NoNum, audioOnly |-> FALSE]

usableFormats_DirectAlways(info) ==
    LET usable == SelectSeq(info.formats, IsUsable)
        mapped == [i \in 1..Len(usable) |-> ListEntry(usable[i])]
    IN IF Truthy(info.url) THEN mapped \o <<DirectEntry(info)>> ELSE mapped

usableFormats(info) ==
    LET usable == SelectSeq(info.formats, IsUsable)
        mapped == [i \in 1..Len(usable) |-> ListEntry(usable[i])]
    IN IF Len(usable) = 0 /\ Truthy(info.url) THEN <<DirectEntry(info)>> ELSE mapped

(***************************************************************************)
(* The VideoInfo values selection is checked on.  A format is one of the   *)
(* FormatShapes placed at a list position; its id and its url (when it     *)
(* has one of its own) are those of the position, so that a returned url   *)
(* names the format it came from.                                          *)
(***************************************************************************)
IdNames == <<"18", "137", "22", "140", "251", "299">>
UrlNames == <<"a", "b", "c", "e", "f", "g">>
IdAt(i) == <<IdNames[i]>>

Qualities == {<<NoNum, NoNum>>, <<720, 192>>, <<1080, 128>>, <<1080, 192>>}

FormatShapes ==
    {[ext |-> "mp4", vcodec |-> "avc1", acodec |-> "mp4a", url |-> u,
      height |-> q[1], tbr |-> q[2]] : u \in {"own", ""}, q \in Qualities}
    \cup {[ext |-> "mp4", vcodec |-> "avc1", acodec |-> "none", url |-> u,
           height |-> 1080, tbr |-> 192] : u \in {"own", ""}}
    \cup {[ext |-> "webm", vcodec |-> "vp9", acodec |-> "opus", url |-> "own",
           height |-> 1080, tbr |-> 192],
          [ext |-> "mp4", vcodec |-> "avc1", acodec |-> "mp4a", url |-> Undef,
           height |-> 1080, tbr |-> 192]}

MkFormat(i, sh) ==
    [format_id |-> IdAt(i),
     url |-> IF sh.url = "own" THEN UrlNames[i] ELSE sh.url,
     ext |-> sh.ext, vcodec |-> sh.vcodec, acodec |-> sh.acodec,
     height |-> sh.height, tbr |-> sh.tbr]

Https == <<"http", "s">>
M3u8 == <<"m3u8", "_", "native">>

DirectFields ==
    {[url |-> Undef, ext |-> Undef, protocol |-> NoStr],
     [url |-> "", ext |-> "mp4", protocol |-> Https]}
    \cup {[url |-> "d", ext |-> e, protocol |-> p] :
             e \in {"mp4", "webm"}, p \in {Https, M3u8, NoStr}}

MkInfo(d, hf, fs) ==
    [url |-> d.url, ext |-> d.ext, protocol |-> d.protocol,
     hasFormats |-> hf, formats |-> fs]

AudioStreamId == <<"my", "audio", "stream">>

RequestIds == {NoStr, Direct, Mp3, <<>>, IdAt(1), IdAt(2), AudioStreamId}

NoOutcome == Failure("none", <<>>, "none")


(***************************************************************************)
(* infoCache = new NodeCache({ stdTTL: 300, checkperiod: 600 }).  An entry *)
(* set at time s lives until t = s + stdTTL; get and the periodic check    *)
(* treat it as expired, and delete it, when t < now.  The key              *)
(* `videoInfo:${videoUrl}` is the URL behind a fixed prefix, so the URL    *)
(* itself is the key here.                                                 *)
(***************************************************************************)
StdTTL == 300
CheckPeriod == 600

Urls == {"u1", "u2"}
Deltas == {1, StdTTL}

EmptyInfo == MkInfo([url |-> Undef, ext |-> Undef, protocol |-> NoStr], FALSE, <<>>)
NoEntry == [present |-> FALSE, v |-> EmptyInfo, t |-> 0]

Expired_AtTTL(e, time) == e.t <= time
Expired(e, time) == e.t < time

CacheGet_AnyKey(cache, key, time) ==
    LET live == {k \in DOMAIN cache : cache[k].present /\ ~Expired(cache[k], time)}
    IN IF live # {}
       THEN [hit |-> TRUE,
             value |-> cache[IF key \in live THEN key ELSE CHOOSE k \in live : TRUE].v,
             cache |-> cache]
       ELSE [hit |-> FALSE, value |-> EmptyInfo, cache |-> [cache EXCEPT ![key] = NoEntry]]

CacheGet_UntilSwept(cache, key, time) ==
    IF cache[key].present
    THEN [hit |-> TRUE, value |-> cache[key].v, cache |-> cache]
    ELSE [hit |-> FALSE, value |-> EmptyInfo, cache |-> cache]

CacheGet_SharedSort(cache, key, time) ==
    IF cache[key].present /\ ~Expired(cache[key], time)
    THEN [hit |-> TRUE, value |-> cache[key].v,
          cache |-> [cache EXCEPT ![key].v.formats = StableSort(@, CompareQuality)]]
    ELSE [hit |-> FALSE, value |-> EmptyInfo, cache |-> [cache EXCEPT ![key] = NoEntry]]

CacheGet(cache, key, time) ==
    IF cache[key].present /\ ~Expired(cache[key], time)
    THEN [hit |-> TRUE, value |-> cache[key].v, cache |-> cache]
    ELSE [hit |-> FALSE, value |-> EmptyInfo, cache |-> [cache EXCEPT ![key] = NoEntry]]

CacheSet_FirstWins(cache, key, value, time) ==
    IF cache[key].present
    THEN cache
    ELSE [cache EXCEPT ![key] = [present |-> TRUE, v |-> value, t |-> time + StdTTL]]

CacheSet(cache, key, value, time) ==
    [cache EXCEPT ![key] = [present |-> TRUE, v |-> value, t |-> time + StdTTL]]

CheckData(cache, time) ==
    [k \in DOMAIN cache |->
        IF cache[k].present /\ Expired(cache[k], time) THEN NoEntry ELSE cache[k]]

(***************************************************************************)
(* getCachedVideoInfo: the catch block, which classifies the raw failure   *)
(* of ytdlp.getInfoAsync.  A raw failure is the thrown value: whether it   *)
(* is an Error, and its message.                                           *)
(***************************************************************************)
ToolPath == <<"yt-dlp">>

GenericMessage == <<"Failed", "to", "fetch", "video", "information", ".">>

KindMessage(kind) ==
    CASE kind = "UnsupportedURL" ->
            <<"The", "provided", "URL", "is", "not", "supported", ".">>
      [] kind = "ExtractionFailed" ->
            <<"Could", "not", "extract", "video", "data", "from", "the", "URL", ".">>
      [] kind = "AuthRequired" ->
            <<"This", "video", "is", "private", "or", "requires", "login", ".",
              "Cookie", "support", "is", "needed", ".">>
      [] kind = "NotFound" ->
            <<"Video", "not", "found", "(", "404", "error", ")", ".">>
      [] kind = "NetworkUnreachable" ->
            <<"Could", "not", "resolve", "the", "website", "address", ".",
              "Check", "the", "URL", "or", "your", "connection", ".">>
      [] kind = "ToolUnavailable" ->
            <<"Failed", "to", "execute", "the", "video", "downloader", "tool", ".",
              "Ensure", "yt-dlp", "is", "installed", "and", "accessible", ".",
              "(", "Checked", "Path", ":">> \o ToolPath \o <<")">>
      [] OTHER -> GenericMessage

Classify_ToolFirst(raw) ==
    LET k == IF ~raw.isError THEN "Unknown"
             ELSE IF \/ Includes(raw.message, <<"No", "such", "file", "or", "directory">>)
                     \/ Includes(raw.message, <<"Command", "failed">>)
                     \/ Includes(raw.message, <<"ENOENT">>)
             THEN "ToolUnavailable"
             ELSE IF Includes(raw.message, <<"Unsupported", "URL">>) THEN "UnsupportedURL"
             ELSE IF \/ Includes(raw.message, <<"Unable", "to", "extract", "video", "data">>)
                     \/ Includes(raw.message, <<"JSON", "metadata">>)
             THEN "ExtractionFailed"
             ELSE IF \/ Includes(raw.message, <<"private", "video">>)
                     \/ Includes(raw.message, <<"Login", "required">>)
             THEN "AuthRequired"
             ELSE IF Includes(raw.message, <<"HTTP", "Error", "404">>) THEN "NotFound"
             ELSE IF \/ Includes(raw.message, <<"net::ERR_NAME_NOT_RESOLVED">>)
                     \/ Includes(raw.message, <<"Temporary", "failure", "in", "name", "resolution">>)
             THEN "NetworkUnreachable"
             ELSE "Unknown"
    IN [kind |-> k, message |-> KindMessage(k)]

Classify(raw) ==
    IF ~raw.isError
    THEN [kind |-> "Unknown",
          message |-> <<"Failed", "to", "fetch", "video", "information", ".">>]
    ELSE IF Includes(raw.message, <<"Unsupported", "URL">>)
    THEN [kind |-> "UnsupportedURL",
          message |-> <<"The", "provided", "URL", "is", "not", "supported", ".">>]
    ELSE IF \/ Includes(raw.message, <<"Unable", "to", "extract", "video", "data">>)
            \/ Includes(raw.message, <<"JSON", "metadata">>)
    THEN [kind |-> "ExtractionFailed",
          message |-> <<"Could", "not", "extract", "video", "data", "from", "the", "URL", ".">>]
    ELSE IF \/ Includes(raw.message, <<"private", "video">>)
            \/ Includes(raw.message, <<"Login", "required">>)
    THEN [kind |-> "AuthRequired",
          message |-> <<"This", "video", "is", "private", "or", "requires", "login", ".",
                        "Cookie", "support", "is", "needed", ".">>]
    ELSE IF Includes(raw.message, <<"HTTP", "Error", "404">>)
    THEN [kind |-> "NotFound",
          message |-> <<"Video", "not", "found", "(", "404", "error", ")", ".">>]
    ELSE IF \/ Includes(raw.message, <<"net::ERR_NAME_NOT_RESOLVED">>)
            \/ Includes(raw.message, <<"Temporary", "failure", "in", "name", "resolution">>)
    THEN [kind |-> "NetworkUnreachable",
          message |-> <<"Could", "not", "resolve", "the", "website", "address", ".",
                        "Check", "the", "URL", "or", "your", "connection", ".">>]
    ELSE IF \/ Includes(raw.message, <<"No", "such", "file", "or", "directory">>)
            \/ Includes(raw.message, <<"Command", "failed">>)
            \/ Includes(raw.message, <<"ENOENT">>)
    THEN [kind |-> "ToolUnavailable",
          message |-> <<"Failed", "to", "execute", "the", "video", "downloader", "tool", ".",
                        "Ensure", "yt-dlp", "is", "installed", "and", "accessible", ".",
                        "(", "Checked", "Path", ":">> \o ToolPath \o <<")">>]
    ELSE [kind |-> "Unknown",
          message |-> <<"Failed", "to", "fetch", "video", "information", ".">>]

ExtractionFailed_Caching(cache, key, raw, time) ==
    [cache |-> CacheSet(cache, key, EmptyInfo, time),
     error |-> TRPCError("BAD_REQUEST", Classify(raw).message, Classify(raw).kind)]

\* What a failed extraction leaves behind: the cache, and the error thrown.
ExtractionFailed(cache, key, raw, time) ==
    [cache |-> cache,
     error |-> TRPCError("BAD_REQUEST", Classify(raw).message, Classify(raw).kind)]

ExtractionSucceeded_Shared(cache, key, info, time) ==
    IF cache[key].present
    THEN [cache |-> cache, value |-> cache[key].v]
    ELSE [cache |-> CacheSet(cache, key, info, time), value |-> info]

\* What a successful extraction leaves behind: the cache, and the value returned.
ExtractionSucceeded(cache, key, info, time) ==
    [cache |-> CacheSet(cache, key, info, time), value |-> info]

(***************************************************************************)
(* The two procedures after getCachedVideoInfo returned or threw.          *)
(***************************************************************************)
Respond(op, fid, info) ==
    IF op = "list" THEN Listing(usableFormats(info)) ELSE DownloadLinkOf(info, fid)

RespondError(op, fid, error) ==
    IF op = "list"
    THEN Failure(error.code, error.message, error.kind)
    ELSE CatchDownloadLink(fid, error)

(***************************************************************************)
(* What the extraction capability may answer, and what may be requested.   *)
(***************************************************************************)
InfoA ==
    MkInfo([url |-> Undef, ext |-> Undef, protocol |-> NoStr], TRUE,
           <<MkFormat(1, [ext |-> "mp4", vcodec |-> "avc1", acodec |-> "none",
                          url |-> "own", height |-> 1080, tbr |-> 192]),
             MkFormat(2, [ext |-> "mp4", vcodec |-> "avc1", acodec |-> "mp4a",
                          url |-> "own", height |-> 720, tbr |-> 192])>>)
InfoB == MkInfo([url |-> "d", ext |-> "webm", protocol |-> Https], FALSE, <<>>)
Infos == {InfoA, InfoB}

RawErrors ==
    {[isError |-> TRUE, message |-> <<"ERROR", ":", "Unsupported", "URL", ":", "x">>]}

Ops == {[op |-> "list", fid |-> NoStr], [op |-> "link", fid |-> Mp3]}

Slots == 1..MaxRequests

NoCause == [isError |-> FALSE, message |-> NoStr]

IdleReq ==
    [pc |-> "idle", op |-> "list", url |-> "u1", fid |-> NoStr, calls |-> 0,
     how |-> "none", cause |-> NoCause,
     within |-> FALSE, firstAfter |-> FALSE, afterFailure |-> FALSE,
     result |-> NoOutcome]

SelOff ==
    /\ selInfo = EmptyInfo
    /\ selFid = NoStr
    /\ selOut = NoOutcome
    /\ selList = <<>>
    /\ selPc = "off"

SysInit ==
    /\ now = 0
    /\ ticks = 0
    /\ infoCache = [u \in Urls |-> NoEntry]
    /\ checkAt = CheckPeriod
    /\ reqs = [r \in Slots |-> IdleReq]
    /\ extractCalls = [u \in Urls |-> 0]
    /\ inserted = [u \in Urls |-> {}]
    /\ served = [u \in Urls |-> {}]
    /\ failedSince = [u \in Urls |-> FALSE]

Init == SysInit /\ SelOff

\* A request arrives: the handler runs up to the cache lookup and, on a hit,
\* to its end; on a miss it calls ytdlp.getInfoAsync and waits.
StartRequest(r, o, u) ==
    LET got == CacheGet(infoCache, u, now)
        lapsed == {t \in inserted[u] : now - t > StdTTL}
        history == [within |-> \E t \in inserted[u] : now - t <= StdTTL,
                    firstAfter |-> lapsed \ served[u] # {},
                    afterFailure |-> failedSince[u]]
    IN /\ reqs[r].pc = "idle"
       /\ (r > 1) => (reqs[r - 1].pc # "idle")
       /\ infoCache' = got.cache
       /\ served' = [served EXCEPT ![u] = served[u] \cup lapsed]
       /\ IF got.hit
          THEN /\ reqs' = [reqs EXCEPT ![r] =
                              [pc |-> "done", op |-> o.op, url |-> u, fid |-> o.fid,
                               calls |-> 0, how |-> "hit", cause |-> NoCause,
                               within |-> history.within,
                               firstAfter |-> history.firstAfter,
                               afterFailure |-> history.afterFailure,
                               result |-> Respond(o.op, o.fid, got.value)]]
               /\ UNCHANGED extractCalls
          ELSE /\ reqs' = [reqs EXCEPT ![r] =
                              [pc |-> "extracting", op |-> o.op, url |-> u, fid |-> o.fid,
                               calls |-> 1, how |-> "none", cause |-> NoCause,
                               within |-> history.within,
                               firstAfter |-> history.firstAfter,
                               afterFailure |-> history.afterFailure,
                               result |-> NoOutcome]]
               /\ extractCalls' = [extractCalls EXCEPT ![u] = extractCalls[u] + 1]
       /\ UNCHANGED <<now, ticks, checkAt, inserted, failedSince, selVars>>

ExtractReturns_InOrder(r, info) ==
    LET u == reqs[r].url
        done == ExtractionSucceeded(infoCache, u, info, now)
    IN /\ reqs[r].pc = "extracting"
       /\ \A q \in Slots : (q < r) => (reqs[q].pc # "extracting")
       /\ infoCache' = done.cache
       /\ reqs' = [reqs EXCEPT ![r].pc = "done", ![r].how = "stored",
                               ![r].result = Respond(reqs[r].op, reqs[r].fid, done.value)]
       /\ inserted' = [inserted EXCEPT ![u] = inserted[u] \cup {now}]
       /\ failedSince' = [failedSince EXCEPT ![u] = FALSE]
       /\ UNCHANGED <<now, ticks, checkAt, extractCalls, served, selVars>>

\* ytdlp.getInfoAsync resolves: the info is cached and the handler runs to its end.
ExtractReturns(r, info) ==
    LET u == reqs[r].url
        done == ExtractionSucceeded(infoCache, u, info, now)
    IN /\ reqs[r].pc = "extracting"
       /\ infoCache' = done.cache
       /\ reqs' = [reqs EXCEPT ![r].pc = "done", ![r].how = "stored",
                               ![r].result = Respond(reqs[r].op, reqs[r].fid, done.value)]
       /\ inserted' = [inserted EXCEPT ![u] = inserted[u] \cup {now}]
       /\ failedSince' = [failedSince EXCEPT ![u] = FALSE]
       /\ UNCHANGED <<now, ticks, checkAt, extractCalls, served, selVars>>

ExtractFails_Retry(r, raw) ==
    /\ reqs[r].pc = "extracting"
    /\ reqs' = [reqs EXCEPT ![r].calls = @ + 1, ![r].cause = raw]
    /\ extractCalls' = [extractCalls EXCEPT ![reqs[r].url] = @ + 1]
    /\ UNCHANGED <<now, ticks, checkAt, infoCache, inserted, served, failedSince, selVars>>

\* ytdlp.getInfoAsync rejects: the failure is classified and thrown to the caller.
ExtractFails(r, raw) ==
    LET u == reqs[r].url
        done == ExtractionFailed(infoCache, u, raw, now)
    IN /\ reqs[r].pc = "extracting"
       /\ infoCache' = done.cache
       /\ reqs' = [reqs EXCEPT ![r].pc = "done", ![r].how = "failed",
                               ![r].cause = raw,
                               ![r].result = RespondError(reqs[r].op, reqs[r].fid, done.error)]
       /\ failedSince' = [failedSince EXCEPT ![u] = TRUE]
       /\ UNCHANGED <<now, ticks, checkAt, extractCalls, inserted, served, selVars>>

\* Time passes.
Tick(d) ==
    /\ ticks < MaxTicks
    /\ ticks' = ticks + 1
    /\ now' = now + d
    /\ UNCHANGED <<infoCache, checkAt, reqs, extractCalls, inserted, served,
                   failedSince, selVars>>

\* NodeCache's periodic check: expired entries are deleted, the next check is scheduled.
Sweep ==
    /\ now >= checkAt
    /\ infoCache' = CheckData(infoCache, now)
    /\ checkAt' = now + CheckPeriod
    /\ UNCHANGED <<now, ticks, reqs, extractCalls, inserted, served, failedSince, selVars>>

Next ==
    \/ \E r \in Slots, o \in Ops, u \in Urls : StartRequest(r, o, u)
    \/ \E r \in Slots, info \in Infos : ExtractReturns(r, info)
    \/ \E r \in Slots, raw \in RawErrors : ExtractFails(r, raw)
    \/ \E d \in Deltas : Tick(d)
    \/ Sweep

Spec == Init /\ [][Next]_vars

(***************************************************************************)
(* The classifier applied to raw failures of every content and shape,      *)
(* through each procedure and request class: one request whose extraction  *)
(* fails.  A raw message is a run of up to MaxPhrases chunks, each a       *)
(* phrase the classifier looks for, a differently capitalised one, or a    *)
(* word it does not know.                                                  *)
(***************************************************************************)
KindOrder ==
    <<"UnsupportedURL", "ExtractionFailed", "AuthRequired", "NotFound",
      "NetworkUnreachable", "ToolUnavailable">>

KindPhrases(kind) ==
    CASE kind = "UnsupportedURL" -> {<<"Unsupported", "URL">>}
      [] kind = "ExtractionFailed" ->
            {<<"Unable", "to", "extract", "video", "data">>, <<"JSON", "metadata">>}
      [] kind = "AuthRequired" -> {<<"private", "video">>, <<"Login", "required">>}
      [] kind = "NotFound" -> {<<"HTTP", "Error", "404">>}
      [] kind = "NetworkUnreachable" ->
            {<<"net::ERR_NAME_NOT_RESOLVED">>,
             <<"Temporary", "failure", "in", "name", "resolution">>}
      [] kind = "ToolUnavailable" ->
            {<<"No", "such", "file", "or", "directory">>, <<"Command", "failed">>,
             <<"ENOENT">>}
      [] OTHER -> {}

Chunks ==
    UNION {KindPhrases(KindOrder[k]) : k \in 1..Len(KindOrder)}
    \cup {<<"ERROR", ":">>, <<"unsupported", "url">>}

Flatten(chunks) ==
    LET cat[i \in 0..Len(chunks)] == IF i = 0 THEN <<>> ELSE cat[i - 1] \o chunks[i]
    IN cat[Len(chunks)]

ClsRawErrors ==
    {[isError |-> e, message |-> Flatten(cs)] :
        e \in BOOLEAN, cs \in UNION {[1..n -> Chunks] : n \in 0..MaxPhrases}}

ClsOps ==
    {[op |-> "list", fid |-> NoStr]}
    \cup {[op |-> "link", fid |-> f] : f \in {NoStr, Mp3, Direct, IdAt(1)}}

ClsNext ==
    \/ \E o \in ClsOps, u \in Urls : StartRequest(1, o, u)
    \/ \E raw \in ClsRawErrors : ExtractFails(1, raw)

ClsSpec == Init /\ [][ClsNext]_vars

(***************************************************************************)
(* Two requests of every request class on VideoInfos whose formats are not *)
(* in sorted order: the second may be served from the entry the first      *)
(* stored.                                                                 *)
(***************************************************************************)
InfoC ==
    MkInfo([url |-> "d", ext |-> "webm", protocol |-> M3u8], TRUE,
           <<MkFormat(1, [ext |-> "mp4", vcodec |-> "avc1", acodec |-> "mp4a",
                          url |-> "own", height |-> 720, tbr |-> 128]),
             MkFormat(2, [ext |-> "mp4", vcodec |-> "avc1", acodec |-> "mp4a",
                          url |-> "own", height |-> 1080, tbr |-> 192])>>)
InfoD ==
    MkInfo([url |-> "d", ext |-> "webm", protocol |-> M3u8], TRUE,
           <<MkFormat(1, [ext |-> "mp4", vcodec |-> "avc1", acodec |-> "none",
                          url |-> Undef, height |-> 720, tbr |-> 128])>>)
FrameInfos == {InfoB, InfoC, InfoD}
FrameSlots == 1..2

FrameNext ==
    \/ \E r \in FrameSlots, o \in ClsOps, u \in Urls : StartRequest(r, o, u)
    \/ \E r \in FrameSlots, info \in FrameInfos : ExtractReturns(r, info)
    \/ \E d \in Deltas : Tick(d)

FrameSpec == Init /\ [][FrameNext]_vars

(***************************************************************************)
(* Two concurrent requests under the assumption that every call of         *)
(* ytdlp.getInfoAsync settles: once the promise of a request is settled    *)
(* the event loop resumes the handler of that request.                     *)
(***************************************************************************)
Returns(r) == \E info \in Infos : ExtractReturns(r, info)
Fails(r) == \E raw \in RawErrors : ExtractFails(r, raw)
Settles(r) == Returns(r) \/ Fails(r)

LiveNext ==
    \/ \E r \in FrameSlots, o \in Ops, u \in Urls : StartRequest(r, o, u)
    \/ \E r \in FrameSlots : Returns(r)
    \/ \E r \in FrameSlots : Fails(r)
    \/ \E d \in Deltas : Tick(d)
    \/ Sweep

LiveSpec ==
    /\ Init
    /\ [][LiveNext]_vars
    /\ \A r \in FrameSlots : WF_vars(Settles(r))

(***************************************************************************)
(* Selection applied to one resolved VideoInfo: getVideoFormats, then      *)
(* getDownloadLink with one formatId.                                      *)
(***************************************************************************)
SelInit ==
    /\ SysInit
    /\ \E d \in DirectFields, n \in 0..MaxFormats, hf \in BOOLEAN :
          /\ (~hf => n = 0)
          /\ \E shapes \in [1..n -> FormatShapes] :
                selInfo = MkInfo(d, hf, [i \in 1..n |-> MkFormat(i, shapes[i])])
    /\ selFid = NoStr
    /\ selOut = NoOutcome
    /\ selList = <<>>
    /\ selPc = "input"

ListFormats ==
    /\ selPc = "input"
    /\ selPc' = "listed"
    /\ selList' = usableFormats(selInfo)
    /\ UNCHANGED <<selInfo, selFid, selOut, sysVars>>

ResolveDownload(fid) ==
    /\ selPc = "listed"
    /\ selPc' = "resolved"
    /\ selFid' = fid
    /\ selOut' = DownloadLinkOf(selInfo, fid)
    /\ UNCHANGED <<selInfo, selList, sysVars>>

SelNext ==
    \/ ListFormats
    \/ \E fid \in RequestIds : ResolveDownload(fid)

SelSpec == SelInit /\ [][SelNext]_vars

(***************************************************************************)
(* Selection applied to a VideoInfo whose format ids may repeat: the id of *)
(* a format is drawn independently of its position, its url (when it has   *)
(* one of its own) is that of the position.                                *)
(***************************************************************************)
DupShapes ==
    {[id |-> k, url |-> u] : k \in 1..2, u \in {"own", "", Undef}}

MkDupFormat(i, sh) ==
    [format_id |-> IdAt(sh.id),
     url |-> IF sh.url = "own" THEN UrlNames[i] ELSE sh.url,
     ext |-> "mp4", vcodec |-> "avc1", acodec |-> "mp4a",
     height |-> 720, tbr |-> 192]

DupInit ==
    /\ SysInit
    /\ \E d \in DirectFields, n \in 0..MaxFormats, hf \in BOOLEAN :
          /\ (~hf => n = 0)
          /\ \E shapes \in [1..n -> DupShapes] :
                selInfo = MkInfo(d, hf, [i \in 1..n |-> MkDupFormat(i, shapes[i])])
    /\ selFid = NoStr
    /\ selOut = NoOutcome
    /\ selList = <<>>
    /\ selPc = "input"

DupSpec == DupInit /\ [][SelNext]_vars

(***************************************************************************)
(* Selection applied to a VideoInfo with audio-only, audio+video and       *)
(* video-only formats of several bitrates.                                 *)
(***************************************************************************)
AudioShapes ==
    {[ext |-> "webm", vcodec |-> "none", acodec |-> "opus", url |-> u, tbr |-> b] :
        u \in {"own", ""}, b \in {NoNum, 128, 192}}
    \cup {[ext |-> "mp4", vcodec |-> "avc1", acodec |-> "mp4a", url |-> "own", tbr |-> b] :
             b \in {NoNum, 256}}
    \cup {[ext |-> "mp4", vcodec |-> "avc1", acodec |-> "mp4a", url |-> "", tbr |-> 256],
          [ext |-> "mp4", vcodec |-> "avc1", acodec |-> "none", url |-> "own", tbr |-> 256],
          [ext |-> "webm", vcodec |-> "none", acodec |-> "opus", url |-> Undef, tbr |-> 192]}

MkAudioFormat(i, sh) ==
    [format_id |-> IdAt(i),
     url |-> IF sh.url = "own" THEN UrlNames[i] ELSE sh.url,
     ext |-> sh.ext, vcodec |-> sh.vcodec, acodec |-> sh.acodec,
     height |-> NoNum, tbr |-> sh.tbr]

AudioDirectFields ==
    {[url |-> Undef, ext |-> Undef, protocol |-> NoStr],
     [url |-> "d", ext |-> "mp4", protocol |-> Https]}

AudioInit ==
    /\ SysInit
    /\ \E d \in AudioDirectFields, n \in 0..MaxFormats, hf \in BOOLEAN :
          /\ (~hf => n = 0)
          /\ \E shapes \in [1..n -> AudioShapes] :
                selInfo = MkInfo(d, hf, [i \in 1..n |-> MkAudioFormat(i, shapes[i])])
    /\ selFid = NoStr
    /\ selOut = NoOutcome
    /\ selList = <<>>
    /\ selPc = "input"

AudioSpec == AudioInit /\ [][SelNext]_vars

(***************************************************************************)
(* Properties of resolution and the cache.                                 *)
(***************************************************************************)
Started == {r \in Slots : reqs[r].pc # "idle"}
ClassifiedKinds ==
    {"UnsupportedURL", "ExtractionFailed", "AuthRequired", "NotFound",
     "NetworkUnreachable", "ToolUnavailable", "Unknown"}

\* C1 as claimed: a resolution of u that starts within 300 seconds of a
\* successful insertion for u makes no extraction call, and the first
\* resolution of u that starts more than 300 seconds after an insertion
\* makes one -- for every insertion, also one that a concurrent resolution
\* of u has overwritten since.
C1_HitWithinWindowOfAnyInsertion ==
    \A r \in Started :
        /\ reqs[r].within => reqs[r].calls = 0
        /\ reqs[r].firstAfter => reqs[r].calls = 1

\* C1 as amended: a resolution of u makes no extraction call when it starts
\* within 300 seconds of a successful insertion for u, and exactly one when it
\* starts more than 300 seconds after the most recent insertion for u (or
\* before any); so the extraction calls for u are as many as the resolutions
\* of u that started outside every window.
C1_HitWithinWindowOfLatestInsertion ==
    /\ \A r \in Started : reqs[r].calls = IF reqs[r].within THEN 0 ELSE 1
    /\ \A u \in Urls :
          extractCalls[u] =
              Cardinality({r \in Started : reqs[r].url = u /\ ~reqs[r].within})

C1_Witness ==
    \E a, b, c \in Started :
        /\ reqs[a].url = reqs[b].url /\ reqs[b].url = reqs[c].url
        /\ reqs[a].how = "stored"
        /\ reqs[b].within /\ reqs[b].how = "hit"
        /\ reqs[c].firstAfter /\ ~reqs[c].within /\ reqs[c].calls = 1

\* C2 as claimed: a failed extraction for u returns a classified failure, and
\* every resolution of u that starts after the failure and before any later
\* successful extraction of u makes an extraction call.
C2_EveryCallAfterFailureExtracts ==
    \A r \in Started :
        /\ reqs[r].how = "failed" =>
              /\ ~reqs[r].result.ok
              /\ reqs[r].result.code = "BAD_REQUEST"
              /\ reqs[r].result.kind \in ClassifiedKinds
        /\ reqs[r].afterFailure => reqs[r].calls = 1

FailureStep(r) == reqs[r].pc = "extracting" /\ reqs'[r].how = "failed"

\* C2 as amended: the step in which an extraction for u fails leaves every
\* cache entry as it was and returns a classified failure, and a resolution of
\* u that starts after the failure and before any later successful extraction
\* of u makes an extraction call unless it starts within 300 seconds of an
\* earlier successful insertion for u, which it is served from.
C2_FailureCachesNothing ==
    /\ [][\A r \in Slots : FailureStep(r) =>
              /\ infoCache' = infoCache
              /\ ~reqs'[r].result.ok
              /\ reqs'[r].result.code = "BAD_REQUEST"
              /\ reqs'[r].result.kind \in ClassifiedKinds]_vars
    /\ [](\A r \in Started :
              reqs[r].afterFailure => reqs[r].calls = IF reqs[r].within THEN 0 ELSE 1)

C2_Witness ==
    \E a, b \in Started :
        /\ reqs[a].url = reqs[b].url
        /\ reqs[a].how = "failed" /\ reqs[a].result.kind = "UnsupportedURL"
        /\ reqs[b].afterFailure /\ ~reqs[b].within /\ reqs[b].calls = 1
        /\ infoCache[reqs[a].url] = NoEntry

(***************************************************************************)
(* Vocabulary of the claims about selection.                               *)
(***************************************************************************)
Formats == selInfo.formats
Positions == 1..Len(selInfo.formats)
Resolved(fid) == selPc = "resolved" /\ selFid = fid
HasDirectUrl == Truthy(selInfo.url)
PassesCompleteness(f) ==
    f.ext = "mp4" /\ f.vcodec # "none" /\ f.acodec # "none" /\ Truthy(f.url)
IsMp4WithUrl(f) == f.ext = "mp4" /\ Truthy(f.url)
LacksTrack(f) == f.ext = "mp4" /\ (f.acodec = "none" \/ f.vcodec = "none")
Returned(url) == selOut.ok /\ selOut.downloadUrl = url
FailedWith(kind) == ~selOut.ok /\ selOut.kind = kind /\ selOut.downloadUrl = NullUrl
WithoutDirect(info) == MkInfo([url |-> Undef, ext |-> Undef, protocol |-> NoStr],
                              info.hasFormats, info.formats)

\* C3: default-variant selection ranks completeness above resolution: whenever
\* some format is mp4 with both tracks and a URL, the returned URL is that of
\* such a format and never that of an mp4 format lacking a track.
C3_CompletenessAboveResolution ==
    (Resolved(NoStr) /\ \E i \in Positions : PassesCompleteness(Formats[i]))
    => /\ \E i \in Positions :
             PassesCompleteness(Formats[i]) /\ Returned(Formats[i].url)
       /\ ~\E i \in Positions : LacksTrack(Formats[i]) /\ Returned(Formats[i].url)

\* C4: among the formats passing the completeness filter, default-variant
\* selection returns the URL of one of maximum height and, among those, of
\* maximum bitrate (absent height and bitrate counting as 0).
C4_MaxHeightThenBitrate ==
    (Resolved(NoStr) /\ \E i \in Positions : PassesCompleteness(Formats[i]))
    => \E i \in Positions :
          /\ PassesCompleteness(Formats[i])
          /\ Returned(Formats[i].url)
          /\ \A j \in Positions : PassesCompleteness(Formats[j]) =>
                \/ OrZero(Formats[j].height) < OrZero(Formats[i].height)
                \/ /\ OrZero(Formats[j].height) = OrZero(Formats[i].height)
                   /\ OrZero(Formats[j].tbr) <= OrZero(Formats[i].tbr)

\* C5: when no format passes the completeness filter, default-variant selection
\* returns the URL of the first mp4 format with a URL in list order; when there
\* is no mp4 format with a URL (and the VideoInfo is not a direct URL without
\* formats) it fails with NoSuitableFormat and returns no locator.
C5_FallbackTier ==
    (Resolved(NoStr) /\ ~\E i \in Positions : PassesCompleteness(Formats[i]))
    => IF \E i \in Positions : IsMp4WithUrl(Formats[i])
       THEN Returned(Formats[FindFirst(Formats, IsMp4WithUrl)].url)
       ELSE ~(HasDirectUrl /\ Len(Formats) = 0) => FailedWith("NoSuitableFormat")

\* C6 as claimed: default-variant selection returns the direct URL only when
\* there is one and the formats list is absent or empty; with a non-empty
\* formats list the result is the one the formats list alone gives.
C6_DirectOnlyWithoutFormats ==
    Resolved(NoStr)
    => /\ Returned(selInfo.url) => (HasDirectUrl /\ Len(Formats) = 0)
       /\ Len(Formats) > 0 => selOut = DownloadLinkOf(WithoutDirect(selInfo), NoStr)

\* C6 as amended: default-variant selection returns the direct URL exactly when
\* there is one and either the formats list is absent or empty, or the direct
\* container is mp4, or the direct protocol contains "http"; otherwise the
\* result is the one the formats list alone gives.
C6_DirectWhenPreferred ==
    Resolved(NoStr)
    => LET preferred ==
               /\ HasDirectUrl
               /\ \/ Len(Formats) = 0
                  \/ selInfo.ext = "mp4"
                  \/ /\ selInfo.protocol # NoStr
                     /\ \E k \in 1..Len(selInfo.protocol) : selInfo.protocol[k] = "http"
       IN /\ preferred => Returned(selInfo.url)
          /\ ~preferred => /\ ~Returned(selInfo.url)
                           /\ selOut = DownloadLinkOf(WithoutDirect(selInfo), NoStr)

C6_Witness ==
    /\ Resolved(NoStr)
    /\ HasDirectUrl /\ selInfo.ext = "webm" /\ selInfo.protocol = Https
    /\ \E i \in Positions : PassesCompleteness(Formats[i])
    /\ Returned(selInfo.url)

\* C7: with formatId "direct" and a direct URL present, the direct URL is
\* returned, for every formats list and every direct container and protocol.
C7_DirectForcesDirectUrl ==
    (Resolved(Direct) /\ HasDirectUrl) => Returned(selInfo.url)

\* C8: with formatId "direct" and no direct URL, the request fails with
\* FormatNotFound, whatever the formats list contains.
C8_DirectWithoutUrlFails ==
    (Resolved(Direct) /\ ~HasDirectUrl) => FailedWith("FormatNotFound")

\* C9: for a VideoInfo with an empty or absent formats list and a direct URL,
\* ListFormats returns exactly one entry, with id "direct", and
\* ResolveDownload(url, "direct") returns that direct URL.
C9_DirectEntryRoundTrip ==
    (HasDirectUrl /\ Len(Formats) = 0)
    => /\ selPc # "input" => (Len(selList) = 1 /\ selList[1].formatId = Direct)
       /\ Resolved(Direct) => Returned(selInfo.url)

C9_Witness ==
    /\ Resolved(Direct)
    /\ HasDirectUrl /\ Len(Formats) = 0
    /\ selInfo.ext = "webm" /\ selInfo.protocol = M3u8
    /\ Len(selList) = 1
    /\ Returned(selInfo.url)

Unmatched(fid) ==
    \A i \in Positions : Formats[i].format_id = fid => ~Truthy(Formats[i].url)

\* C10 as claimed: a formatId that is given and is neither "direct" nor "mp3"
\* fails with FormatNotFound whenever no format has that id or the format with
\* that id has no URL.
C10_AnyGivenIdNotFound ==
    (selPc = "resolved" /\ selFid \notin {NoStr, Direct, Mp3} /\ Unmatched(selFid))
    => FailedWith("FormatNotFound")

\* C10 as amended: a non-empty formatId that is neither "direct" nor "mp3"
\* fails with FormatNotFound whenever no format has that id or the format with
\* that id has no URL; no other format and no direct URL is returned.
C10_ExplicitIdNotFound ==
    (selPc = "resolved" /\ selFid \notin {NoStr, Direct, Mp3, <<>>} /\ Unmatched(selFid))
    => FailedWith("FormatNotFound")

C10_Witness ==
    /\ Resolved(IdAt(1))
    /\ Len(Formats) >= 2
    /\ Formats[1].url = ""
    /\ PassesCompleteness(Formats[2])
    /\ HasDirectUrl
    /\ FailedWith("FormatNotFound")

FirstWithId(i, fid) ==
    /\ Formats[i].format_id = fid
    /\ \A j \in 1..(i - 1) : Formats[j].format_id # fid

\* C11: when several formats share the requested id, explicit-id selection is
\* decided by the first of them in list order: its URL is returned if it has
\* one, and otherwise the request fails with FormatNotFound, whatever URLs the
\* later formats with that id have.
C11_FirstMatchDecides ==
    (selPc = "resolved" /\ IsExplicitId(selFid) /\ selFid # Mp3)
    => \A i \in Positions :
          FirstWithId(i, selFid)
          => IF Truthy(Formats[i].url)
             THEN Returned(Formats[i].url)
             ELSE FailedWith("FormatNotFound")

C11_Witness ==
    /\ Resolved(IdAt(1))
    /\ Len(Formats) >= 2
    /\ Formats[1].format_id = IdAt(1) /\ Formats[2].format_id = IdAt(1)
    /\ ~Truthy(Formats[1].url) /\ Truthy(Formats[2].url)
    /\ HasDirectUrl
    /\ FailedWith("FormatNotFound")

InPrimaryTier(f) ==
    f.acodec # "none" /\ f.vcodec = "none" /\ Truthy(f.url) /\ IsNumber(f.tbr)
InFallbackTier(f) == f.acodec # "none" /\ Truthy(f.url)

\* C12: with formatId "mp3", whenever some format is audio-only with a URL and
\* a numeric bitrate, the returned URL is that of such a format whose bitrate
\* is the maximum among them.
C12_BestAudioOnly ==
    (Resolved(Mp3) /\ \E i \in Positions : InPrimaryTier(Formats[i]))
    => \E i \in Positions :
          /\ InPrimaryTier(Formats[i])
          /\ Returned(Formats[i].url)
          /\ \A j \in Positions : InPrimaryTier(Formats[j]) => Formats[j].tbr <= Formats[i].tbr

\* C13: with formatId "mp3" and no audio-only format with a URL and a numeric
\* bitrate, the returned URL is that of a format of maximum bitrate (absent
\* counted as 0) among the formats with an audio codec and a URL; when there
\* is no such format the request fails with NoAudioStream.
C13_BestAudioFallback ==
    (Resolved(Mp3) /\ \A i \in Positions : ~InPrimaryTier(Formats[i]))
    => IF \E i \in Positions : InFallbackTier(Formats[i])
       THEN \E i \in Positions :
               /\ InFallbackTier(Formats[i])
               /\ Returned(Formats[i].url)
               /\ \A j \in Positions :
                     InFallbackTier(Formats[j]) => OrZero(Formats[j].tbr) <= OrZero(Formats[i].tbr)
       ELSE FailedWith("NoAudioStream")

Matches(sel) == IF sel.thrown THEN FailedWith(sel.error.kind) ELSE Returned(sel.url)
ExplicitOutcome(fid) ==
    \/ FailedWith("FormatNotFound")
    \/ \E i \in Positions : Formats[i].format_id = fid /\ Returned(Formats[i].url)

\* C14 as claimed: formatId "mp3" gets the best-audio outcome, an absent
\* formatId and "direct" get the default-variant outcome, and every other
\* formatId string, the empty string included, gets the URL of a format with
\* that id or FormatNotFound.
C14_EveryOtherStringIsExplicit ==
    selPc = "resolved"
    => IF selFid = Mp3 THEN Matches(SelectMp3(selInfo))
       ELSE IF selFid \in {NoStr, Direct} THEN Matches(SelectDefault(selInfo))
       ELSE ExplicitOutcome(selFid)

\* C14 as amended: formatId "mp3" gets the best-audio outcome; an absent
\* formatId, the empty string and "direct" get the default-variant outcome;
\* every other (non-empty) formatId string gets the URL of a format with that
\* id or FormatNotFound.
C14_NonEmptyStringIsExplicit ==
    selPc = "resolved"
    => IF selFid = Mp3 THEN Matches(SelectMp3(selInfo))
       ELSE IF selFid \in {NoStr, <<>>, Direct} THEN Matches(SelectDefault(selInfo))
       ELSE ExplicitOutcome(selFid)

C14_Witness ==
    /\ Resolved(<<>>)
    /\ Len(Formats) >= 1
    /\ PassesCompleteness(Formats[1])
    /\ ~HasDirectUrl
    /\ Returned(Formats[1].url)

(***************************************************************************)
(* Properties of the classifier.                                           *)
(***************************************************************************)
Contains(text, phrase) ==
    /\ text # NoStr
    /\ \E i \in 1..Len(text) : \E j \in i..Len(text) : SubSeq(text, i, j) = phrase
Mentions(raw, kind) == \E p \in KindPhrases(kind) : Contains(raw.message, p)
EarliestKind(raw) ==
    LET hits == {k \in 1..Len(KindOrder) : Mentions(raw, KindOrder[k])}
    IN IF hits = {} THEN "Unknown"
       ELSE KindOrder[CHOOSE k \in hits : \A h \in hits : k <= h]
Failed == {r \in Started : reqs[r].how = "failed"}

\* C15: the classifier gives a raw error text the kind earliest in the order
\* UnsupportedURL, ExtractionFailed, AuthRequired, NotFound,
\* NetworkUnreachable, ToolUnavailable among the kinds whose phrases it
\* contains, and Unknown with the generic message when it contains none.
C15_FirstMatchWins ==
    \A r \in Failed :
        reqs[r].cause.isError
        => /\ reqs[r].result.kind = EarliestKind(reqs[r].cause)
           /\ EarliestKind(reqs[r].cause) = "Unknown"
                 => reqs[r].result.message = GenericMessage

C15_Witness ==
    \E r \in Failed :
        /\ reqs[r].cause.isError
        /\ Mentions(reqs[r].cause, "NotFound")
        /\ Mentions(reqs[r].cause, "ToolUnavailable")
        /\ reqs[r].result.kind = "NotFound"

EarlierThanDns == {"UnsupportedURL", "ExtractionFailed", "AuthRequired", "NotFound"}

\* C16 as claimed: a raw failure containing a name-resolution phrase is
\* classified NetworkUnreachable whatever else it contains and whatever its
\* shape.
C16_DnsAlwaysNetworkUnreachable ==
    \A r \in Failed :
        Mentions(reqs[r].cause, "NetworkUnreachable")
        => reqs[r].result.kind = "NetworkUnreachable"

\* C16 as amended: a raw failure that is an Error whose message contains a
\* name-resolution phrase is classified NetworkUnreachable unless the message
\* also contains a phrase of an earlier kind, which then decides; it is never
\* Unknown.  A thrown value that is not an Error is Unknown whatever it says.
C16_DnsUnlessEarlierKind ==
    \A r \in Failed :
        Mentions(reqs[r].cause, "NetworkUnreachable")
        => IF ~reqs[r].cause.isError
           THEN reqs[r].result.kind = "Unknown"
           ELSE IF \E k \in EarlierThanDns : Mentions(reqs[r].cause, k)
           THEN /\ reqs[r].result.kind \in EarlierThanDns
                /\ Mentions(reqs[r].cause, reqs[r].result.kind)
           ELSE reqs[r].result.kind = "NetworkUnreachable"

C16_Witness ==
    \E r \in Failed :
        /\ reqs[r].cause.isError
        /\ Contains(reqs[r].cause.message, <<"Temporary", "failure", "in", "name", "resolution">>)
        /\ Mentions(reqs[r].cause, "ToolUnavailable")
        /\ reqs[r].op = "link"
        /\ reqs[r].result.kind = "NetworkUnreachable"

\* C17: the message a caller receives for an extraction failure is the fixed
\* message of the classified kind, through ListFormats and through
\* ResolveDownload with every request class: it is a function of the kind
\* alone, the re-wrapping keeps it and appends nothing to it.
C17_MessageDependsOnKindOnly ==
    \A r \in Failed :
        /\ ~reqs[r].result.ok
        /\ reqs[r].result.code = "BAD_REQUEST"
        /\ reqs[r].result.kind \in ClassifiedKinds
        /\ reqs[r].result.message = KindMessage(reqs[r].result.kind)

C17_Witness ==
    \E r \in Failed :
        /\ reqs[r].op = "link" /\ reqs[r].fid = IdAt(1)
        /\ reqs[r].cause.isError
        /\ Len(reqs[r].cause.message) > 2
        /\ reqs[r].result.kind = "AuthRequired"
        /\ reqs[r].result.message = KindMessage("AuthRequired")

(***************************************************************************)
(* Properties of the messages of selection failures.                       *)
(***************************************************************************)
SaysNoAudioStream == selOut.message = MsgAudioForMp3 \o MsgTryAnother
SaysNoSuitableFormat ==
    \/ selOut.message = MsgNoSuitableFormat \o MsgTryAnother
    \/ selOut.message =
          <<"Could", "not", "get", "download", "link", "for">> \o RequestLabel(selFid)
             \o <<".">> \o MsgTryAnother
SaysFormatNotFound == selOut.message = MsgFormatNotFound(selFid) \o MsgTryAnother

\* C18: a selection failure is reported with the message of its own class,
\* for every formatId string: a best-audio failure with the NoAudioStream
\* message, a default-variant failure with a message naming the default
\* request, an explicit-id failure with the FormatNotFound message containing
\* the requested id and never with the message of another class.
C18_FailureNamesItsClass ==
    (selPc = "resolved" /\ ~selOut.ok)
    => /\ FailedWith("NoAudioStream") => SaysNoAudioStream
       /\ FailedWith("NoSuitableFormat") => SaysNoSuitableFormat
       /\ FailedWith("FormatNotFound") =>
             /\ SaysFormatNotFound
             /\ Contains(selOut.message, selFid)
             /\ ~SaysNoAudioStream

(***************************************************************************)
(* Properties of concurrent resolutions.                                   *)
(***************************************************************************)
Missed(u) == {r \in Started : reqs[r].url = u /\ reqs[r].how # "hit"}

\* C19: resolutions of one URL that look the cache up before any of them has
\* stored a result each make their own extraction call -- as many calls as
\* such resolutions -- and each returns what its own call returned.
C19_NoInFlightDeduplication ==
    /\ [](\A u \in Urls :
             /\ \A r \in Missed(u) : reqs[r].calls = 1
             /\ extractCalls[u] = Cardinality(Missed(u)))
    /\ [][\A r \in Slots, info \in Infos :
             ExtractReturns(r, info)
             => reqs'[r].result = Respond(reqs[r].op, reqs[r].fid, info)]_vars

C19_Witness ==
    \E u \in Urls :
        /\ now = 0
        /\ extractCalls[u] = MaxRequests
        /\ \A r \in Slots : reqs[r].url = u /\ reqs[r].how = "stored" /\ reqs[r].calls = 1
        /\ \E a, b \in Slots :
              /\ reqs[a].op = reqs[b].op /\ reqs[a].fid = reqs[b].fid
              /\ reqs[a].result # reqs[b].result

LastWrite(u) == CHOOSE t \in inserted[u] : \A x \in inserted[u] : x <= t
Written(info, time) == [present |-> TRUE, v |-> info, t |-> time + StdTTL]

\* C20: writes for one key are last-write-wins: a successful resolution of u
\* replaces the entry of u by the VideoInfo it extracted, expiring 300 seconds
\* after that write, so the entry held is that of the last write; an entry
\* changes in no other way than by such a write or by its removal once
\* expired, and a resolution that fails leaves every entry as it is.
C20_LastWriteWins ==
    /\ [](\A u \in Urls :
             infoCache[u].present
             => inserted[u] # {} /\ infoCache[u].t = LastWrite(u) + StdTTL)
    /\ [][/\ \A r \in Slots, info \in Infos :
                ExtractReturns(r, info) => infoCache'[reqs[r].url] = Written(info, now)
          /\ \A u \in Urls :
                infoCache'[u] # infoCache[u]
                => \/ \E r \in Slots, info \in Infos :
                         reqs[r].url = u /\ ExtractReturns(r, info)
                   \/ /\ infoCache'[u] = NoEntry
                      /\ infoCache[u].present /\ infoCache[u].t < now
          /\ \A r \in Slots : FailureStep(r) => infoCache' = infoCache]_vars

C20_Witness ==
    \E u \in Urls : \E a, b, c \in Slots :
        /\ reqs[a].url = u /\ reqs[b].url = u /\ reqs[c].url = u
        /\ reqs[a].how = "stored" /\ reqs[b].how = "stored" /\ reqs[c].how = "failed"
        /\ reqs[a].op = reqs[b].op /\ reqs[a].result # reqs[b].result
        /\ inserted[u] = {0, 1}
        /\ infoCache[u].present /\ infoCache[u].t = 1 + StdTTL

(***************************************************************************)
(* Properties of the cache key and of expiry.                              *)
(***************************************************************************)
Stored(u) == {r \in Started : reqs[r].url = u /\ reqs[r].how = "stored"}
ExtractedFor(u) ==
    {info \in Infos :
        \E r \in Stored(u) : reqs[r].result = Respond(reqs[r].op, reqs[r].fid, info)}

\* C21: the cache key is the requested URL itself: the entry of u holds a
\* VideoInfo that an extraction call for u returned, a cache hit for u
\* answers from such a VideoInfo whatever is cached under other strings, a
\* resolution of u with no live entry of u calls extraction whatever is
\* cached under other strings, and storing the result for u leaves the
\* entries of all other keys as they were.
C21_VerbatimKey ==
    /\ [](\A u \in Urls :
             /\ infoCache[u].present => infoCache[u].v \in ExtractedFor(u)
             /\ \A r \in Started :
                   (reqs[r].url = u /\ reqs[r].how = "hit")
                   => \E info \in ExtractedFor(u) :
                         reqs[r].result = Respond(reqs[r].op, reqs[r].fid, info)
             /\ \A r \in Started :
                   (reqs[r].url = u /\ ~reqs[r].within) => reqs[r].calls = 1)
    /\ [][\A r \in Slots, info \in Infos :
             ExtractReturns(r, info)
             => \A u \in Urls \ {reqs[r].url} : infoCache'[u] = infoCache[u]]_vars

C21_Witness ==
    \E a, b \in Started :
        /\ reqs[a].url = "u1" /\ reqs[a].how = "stored"
        /\ reqs[b].url = "u2" /\ reqs[b].how = "stored" /\ reqs[b].calls = 1
        /\ infoCache["u1"].present /\ infoCache["u2"].present
        /\ infoCache["u1"].v # infoCache["u2"].v
        /\ \E c \in Started : reqs[c].url = "u2" /\ reqs[c].how = "hit"

ExpiredUnswept(u) == infoCache[u].present /\ infoCache[u].t < now

\* C22: lazy expiry holds without the periodic check: a cache hit answers only
\* a resolution that starts at most 300 seconds after an insertion for its
\* URL, and a resolution that finds an entry that has expired but is still
\* stored treats it as absent and calls extraction.
C22_LazyExpiry ==
    /\ [](\A r \in Started : reqs[r].how = "hit" => reqs[r].within)
    /\ [][\A r \in Slots, o \in Ops, u \in Urls :
             (StartRequest(r, o, u) /\ ExpiredUnswept(u))
             => /\ reqs'[r].calls = 1
                /\ reqs'[r].pc = "extracting"
                /\ extractCalls'[u] = extractCalls[u] + 1]_vars

C22_Witness ==
    \E r \in Started :
        /\ checkAt = CheckPeriod /\ now < CheckPeriod
        /\ inserted[reqs[r].url] # {}
        /\ reqs[r].firstAfter /\ ~reqs[r].within
        /\ reqs[r].pc = "extracting" /\ reqs[r].calls = 1

Live(u) == infoCache[u].present /\ ~(infoCache[u].t < now)

\* C23: a cached VideoInfo is immutable: a request of any class that is served
\* from the cache, whether its selection succeeds or fails, leaves every
\* entry as it was -- the value, with the order and contents of its formats,
\* and the expiry time.
C23_CachedInfoImmutable ==
    [][\A r \in FrameSlots, o \in ClsOps, u \in Urls :
          (StartRequest(r, o, u) /\ Live(u))
          => /\ reqs'[r].how = "hit"
             /\ reqs'[r].result = Respond(o.op, o.fid, infoCache[u].v)
             /\ infoCache' = infoCache]_vars

C23_Witness ==
    \E r \in FrameSlots :
        /\ reqs[r].how = "hit" /\ reqs[r].op = "link" /\ reqs[r].fid = NoStr
        /\ reqs[r].result.ok
        /\ now > 0
        /\ infoCache[reqs[r].url] = Written(InfoC, 0)
        /\ reqs[r].result.downloadUrl = InfoC.formats[2].url

Extracting(u) == {r \in Started : reqs[r].url = u /\ reqs[r].how # "hit"}

\* C24: each request invokes the extraction at most once: not at all when it
\* is served from the cache and exactly once otherwise, so the extractions of
\* a URL number the requests that missed on it; when the extraction returns
\* or fails the request completes in that step, with no further extraction,
\* whether the selection then succeeds or fails.
C24_AtMostOneExtraction ==
    /\ [](/\ \A r \in Started :
               /\ reqs[r].calls \in {0, 1}
               /\ (reqs[r].how = "hit") <=> (reqs[r].calls = 0)
          /\ \A u \in Urls : extractCalls[u] = Cardinality(Extracting(u)))
    /\ [][\A r \in Slots :
             (reqs[r].pc = "extracting" /\ reqs'[r] # reqs[r])
             => /\ reqs'[r].pc = "done"
                /\ reqs'[r].calls = 1
                /\ extractCalls' = extractCalls]_vars

C24_Witness ==
    \E r1, r2, r3 \in Started :
        /\ reqs[r1].how = "failed" /\ reqs[r1].calls = 1
        /\ reqs[r2].how = "stored" /\ ~reqs[r2].result.ok /\ reqs[r2].calls = 1
        /\ reqs[r3].how = "hit" /\ ~reqs[r3].result.ok /\ reqs[r3].calls = 0
        /\ reqs[r1].url = reqs[r2].url /\ reqs[r2].url = reqs[r3].url
        /\ extractCalls[reqs[r1].url] = 2

SelectionKinds == {"NoAudioStream", "FormatNotFound", "NoSuitableFormat"}

\* C25: no partial results: a completed ResolveDownload yields either a
\* downloadUrl that is a non-empty string, the URL of some format of the
\* VideoInfo or its direct URL, or one classified failure carrying no locator;
\* never a success whose downloadUrl is absent, null or empty.
C25_LocatorOrFailure ==
    (selPc = "resolved")
    => \/ /\ selOut.ok
          /\ IsString(selOut.downloadUrl) /\ selOut.downloadUrl # ""
          /\ \/ \E i \in Positions : Formats[i].url = selOut.downloadUrl
             \/ selInfo.url = selOut.downloadUrl
          /\ selOut.kind = "none" /\ selOut.message = <<>>
       \/ /\ ~selOut.ok
          /\ selOut.downloadUrl = NullUrl
          /\ selOut.kind \in SelectionKinds
          /\ selOut.code # "OK" /\ selOut.message # <<>>

C25_Witness ==
    \E i \in Positions :
        /\ Formats[i].url = ""
        /\ selPc = "resolved" /\ selFid = Formats[i].format_id
        /\ ~selOut.ok /\ selOut.downloadUrl = NullUrl
        /\ selInfo.url = ""

Listed == selPc # "input"
ListsDirect == \E k \in 1..Len(selList) : selList[k].formatId = Direct
UsableFormat(f) ==
    /\ IsString(f.url) /\ f.url # ""
    /\ (f.ext = "mp4" \/ f.ext = "webm" \/ f.acodec # "none")
SomeUsable == \E i \in Positions : UsableFormat(Formats[i])
HasDirect == IsString(selInfo.url) /\ selInfo.url # ""

\* C26: ListFormats produces the synthetic entry with id "direct" exactly when
\* the VideoInfo has a direct URL and none of its formats is usable (has a URL
\* and is mp4, webm or has an audio codec other than none); it is then the
\* only entry, and when some format is usable no "direct" entry is listed even
\* if a direct URL is present.
C26_DirectEntryExactly ==
    Listed
    => /\ ListsDirect <=> (HasDirect /\ ~SomeUsable)
       /\ ListsDirect => selList = <<DirectEntry(selInfo)>>
       /\ SomeUsable
          => /\ Len(selList) = Cardinality({i \in Positions : UsableFormat(Formats[i])})
             /\ \A k \in 1..Len(selList) :
                   \E i \in Positions :
                       UsableFormat(Formats[i]) /\ selList[k] = ListEntry(Formats[i])

C26_Witness ==
    /\ Listed /\ HasDirect
    /\ Len(Formats) = MaxFormats
    /\ \E i \in Positions : Formats[i].url = ""
    /\ \E i \in Positions : UsableFormat(Formats[i])
    /\ ~ListsDirect /\ Len(selList) = 1

ListedUrl(k) ==
    LET usable == SelectSeq(Formats, IsUsable)
    IN IF Len(usable) = 0 THEN selInfo.url ELSE usable[k].url

\* C27: ListFormats and ResolveDownload agree on one VideoInfo: for every
\* entry that ListFormats returned, a real format or the synthetic "direct",
\* ResolveDownload with the id of that entry succeeds and returns the URL of
\* that entry (the direct URL for "direct").
C27_ListedIdsResolve ==
    (selPc = "resolved")
    => \A k \in 1..Len(selList) :
          (selList[k].formatId = selFid) => Returned(ListedUrl(k))

\* C28: default-variant selection on a VideoInfo without a direct URL succeeds
\* whenever some format is mp4 with a non-empty URL: mp4 formats whose URL is
\* the empty string, wherever they sit in the list and whatever their height,
\* never make it fail with NoSuitableFormat.
C28_EmptyUrlsDoNotMask ==
    (/\ Resolved(NoStr) /\ ~HasDirectUrl
     /\ \E i \in Positions : IsMp4WithUrl(Formats[i]))
    => /\ selOut.ok
       /\ \E i \in Positions : IsMp4WithUrl(Formats[i]) /\ Returned(Formats[i].url)

EarliestBestComplete(i) ==
    /\ PassesCompleteness(Formats[i])
    /\ \A j \in Positions :
          PassesCompleteness(Formats[j])
          => /\ CompareQuality(Formats[i], Formats[j]) <= 0
             /\ (j < i) => CompareQuality(Formats[i], Formats[j]) # 0
    /\ \E j \in Positions :
          j # i /\ PassesCompleteness(Formats[j])
                /\ CompareQuality(Formats[i], Formats[j]) = 0

EarliestBestAudioOnly(i) ==
    /\ InPrimaryTier(Formats[i])
    /\ \A j \in Positions :
          InPrimaryTier(Formats[j])
          => /\ CompareTbr(Formats[i], Formats[j]) <= 0
             /\ (j < i) => CompareTbr(Formats[i], Formats[j]) # 0
    /\ \E j \in Positions :
          j # i /\ InPrimaryTier(Formats[j]) /\ CompareTbr(Formats[i], Formats[j]) = 0

EarliestBestWithAudio(i) ==
    /\ InFallbackTier(Formats[i])
    /\ \A j \in Positions :
          InFallbackTier(Formats[j])
          => /\ CompareTbrOrZero(Formats[i], Formats[j]) <= 0
             /\ (j < i) => CompareTbrOrZero(Formats[i], Formats[j]) # 0
    /\ \E j \in Positions :
          j # i /\ InFallbackTier(Formats[j])
                /\ CompareTbrOrZero(Formats[i], Formats[j]) = 0

\* C29: selection is deterministic and its ties are broken by list order: the
\* outcome of ResolveDownload is a function of the VideoInfo and the request
\* class, and when several candidates tie on the sort key at the top of a tier
\* (equal height and bitrate in the default tier, equal bitrate in the
\* best-audio tiers) the URL of the earliest of them in the formats list is
\* returned.
C29_DeterministicEarliestOnTies ==
    (selPc = "resolved")
    => /\ selOut = DownloadLinkOf(selInfo, selFid)
       /\ (selFid = NoStr /\ ~HasDirectUrl)
          => \A i \in Positions : EarliestBestComplete(i) => Returned(Formats[i].url)
       /\ (selFid = Mp3)
          => \A i \in Positions : EarliestBestAudioOnly(i) => Returned(Formats[i].url)
       /\ (selFid = Mp3 /\ ~\E j \in Positions : InPrimaryTier(Formats[j]))
          => \A i \in Positions : EarliestBestWithAudio(i) => Returned(Formats[i].url)

Pending(r) == reqs[r].pc = "extracting"
Completed(r) == reqs[r].pc = "done" /\ reqs[r].result # NoOutcome
MayStart(r) == reqs[r].pc = "idle" /\ ((r > 1) => (reqs[r - 1].pc # "idle"))

\* C30: the extraction call is the only point at which a request can block.
\* When every extraction call eventually returns or fails, every request
\* eventually completes with a result or a failure; a request leaves the
\* pending state by no other step than the return or the failure of its own
\* extraction call, however much time passes; and whatever requests are
\* pending, for the same or for other URLs, a request can start, and the
\* extraction call of a pending request can return or fail.
C30_OnlyExtractionBlocks ==
    /\ \A r \in FrameSlots : Pending(r) ~> Completed(r)
    /\ [](\A r \in FrameSlots :
             /\ (reqs[r].pc = "done") => Completed(r)
             /\ Pending(r) => (ENABLED Returns(r) /\ ENABLED Fails(r))
             /\ MayStart(r)
                => \A o \in Ops, u \in Urls : ENABLED StartRequest(r, o, u))
    /\ [][\A r \in FrameSlots :
             (Pending(r) /\ reqs'[r] # reqs[r]) => Settles(r)]_vars

C30_Witness ==
    /\ Pending(1) /\ Completed(2)
    /\ reqs[1].url = reqs[2].url
    /\ reqs[2].how = "stored"
    /\ now >= 2 * StdTTL

====
